---- MODULE Spec2Model ----
(***************************************************************************)
(* Session coordination engine of the buzzer room (RoomContext.tsx,        *)
(* BuzzButton.tsx, AudioPlayer).  The store is the Firebase room record;   *)
(* every client works on the last snapshot its listener delivered.         *)
(***************************************************************************)
EXTENDS Integers, Sequences, FiniteSets, TLC

(* ------------------------------ bounds --------------------------------- *)
NumPlayers == 3
MaxRuns == 2
MaxTime == 30
NumBuzzers == 1
MaxStops == 2
NumSongs == 2
MaxAnswers == 2
MaxTurnNumber == 4
MaxCalls == 3
MaxStartPoints == 6

(* ------------------------- program constants --------------------------- *)
CountdownFrom == 3
turnAdvantageSeconds == 10
buzzDelaySeconds == 10
AdvantageTimeoutSeconds == 15
\* granularity of the modelled clock
TimeStep == turnAdvantageSeconds \div 2

Host == 0
Players == 1..NumPlayers
Clients == {Host} \cup Players
NoWinner == -1
Runs == 1..MaxRuns
Buzzers == 1..NumBuzzers
Songs == 1..NumSongs
NoSong == 0
Unset == -1

VARIABLES
    gameMode,      \* rooms/{code}/gameMode.type
    buzzEnabled,   \* rooms/{code}/buzzEnabled
    winnerInfo,    \* rooms/{code}/winnerInfo.playerId, NoWinner when null
    countdown,     \* rooms/{code}/countdown
    currentTurn,   \* rooms/{code}/currentTurn
    roomData,      \* per client: the snapshot held in React state
    cdRun,         \* host: the countdown sequences in progress
    cdSeen,        \* per client: number of countdown events received
    now,           \* wall clock of the host process, seconds
    timers,        \* host: pending setTimeout callbacks
    won,           \* history: players whose handleBuzz wrote winnerInfo this round
    cdLog,         \* history: countdown writes applied to the store
    stopped,       \* history: stopCountdown calls since the last countdown start
    failed,        \* history: a store write of the running sequence failed
    players,       \* rooms/{code}/players: presence and score fields per id
    modeSettings,  \* rooms/{code}/gameMode.settings: pointsCorrect, pointsWrong
    songAttempts,  \* rooms/{code}/songAttempts: item -> array of player ids
    currentSong,   \* rooms/{code}/currentSong, NoSong when absent
    buzzPc,        \* per player: handleBuzz suspended at its first await
    called,        \* history: the latest call of a guarded operation, its caller, the number of calls
    answer         \* rooms/{code}/winnerInfo/answer, held as the id of its submitter

vars == <<gameMode, buzzEnabled, winnerInfo, countdown, currentTurn, roomData,
          cdRun, cdSeen, now, timers, won, cdLog, stopped, failed,
          players, modeSettings, songAttempts, currentSong, buzzPc, called, answer>>

\* the state added for presence, scoring and the expert mode
ext == <<players, modeSettings, songAttempts, currentSong, buzzPc, called, answer>>
roomExt == <<players, modeSettings, songAttempts, currentSong, buzzPc, answer>>

(* ------------------------------ store ---------------------------------- *)
NoCountdown == [isActive |-> FALSE, value |-> 0, startTime |-> FALSE]
NoTurn == [defined |-> FALSE, playerId |-> NoWinner, turnNumber |-> 0,
           startTime |-> 0, advantagePhase |-> FALSE, turnOrder |-> <<>>,
           nextPlayerIndex |-> 0]
NewPlayer == [present |-> TRUE, points |-> 0, currentStreak |-> 0, bestStreak |-> 0,
              correctAnswers |-> 0, wrongAnswers |-> 0]
NoSettings == [pointsCorrect |-> Unset, pointsWrong |-> Unset]
Absent == [NewPlayer EXCEPT !.present = FALSE]
NoCall == [op |-> "none", by |-> NoWinner, n |-> 0]
\* winnerInfo without an answer key
NoAnswer == -1
IdleRun == [kind |-> "none", pc |-> "idle", i |-> 0]

\* the full-room snapshot a listener receives
RoomView == [buzzEnabled |-> buzzEnabled, winnerInfo |-> winnerInfo,
             currentTurn |-> currentTurn, players |-> players,
             songAttempts |-> songAttempts, currentSong |-> currentSong]

\* listenToRoom callback: setRoomData(data)
Deliver(c) ==
    /\ roomData[c] # RoomView
    /\ roomData' = [roomData EXCEPT ![c] = RoomView]
    /\ UNCHANGED <<gameMode, buzzEnabled, winnerInfo, countdown, currentTurn,
                   cdRun, cdSeen, now, timers, won, cdLog, stopped, failed>>
    /\ UNCHANGED ext

(* ------------------------------ ModeGate ------------------------------- *)
\* handleBuzz: buzzEnabled and winnerInfo checks on the local snapshot
BaseGate_mut(rd) == rd.winnerInfo = NoWinner
BaseGate(rd) == rd.buzzEnabled /\ rd.winnerInfo = NoWinner

\* handleBuzz: turn check of the turn-based mode
TurnGateDenies(rd, mode, p) ==
    /\ mode = "turnBased"
    /\ rd.currentTurn.defined
    /\ rd.currentTurn.advantagePhase
    /\ rd.currentTurn.playerId # p

MayBuzz(rd, mode, p) == BaseGate(rd) /\ ~TurnGateDenies(rd, mode, p)

(* ----------------------------- RaceResolver ---------------------------- *)
\* handleBuzz: returns early when the gate denies, otherwise
\* update(room, {winnerInfo, buzzEnabled: false})
HandleBuzz(p) ==
    /\ IF MayBuzz(roomData[p], gameMode, p)
          THEN /\ winnerInfo' = p
               /\ answer' = NoAnswer
               /\ buzzEnabled' = FALSE
               /\ won' = won \cup {p}
          ELSE UNCHANGED <<winnerInfo, answer, buzzEnabled, won>>
    /\ UNCHANGED <<gameMode, countdown, currentTurn, roomData, cdRun, cdSeen,
                   now, timers, cdLog, stopped, failed>>
    /\ UNCHANGED <<players, modeSettings, songAttempts, currentSong, buzzPc, called>>

(* ------------------------------ host gate ------------------------------ *)
enableBuzzWrites ==
    /\ buzzEnabled' = TRUE
    /\ UNCHANGED <<gameMode, winnerInfo, countdown, currentTurn, roomData,
                   cdRun, cdSeen, now, timers, won, cdLog, stopped, failed>>
    /\ UNCHANGED roomExt
enableBuzz == enableBuzzWrites /\ UNCHANGED called

disableBuzzWrites ==
    /\ buzzEnabled' = FALSE
    /\ UNCHANGED <<gameMode, winnerInfo, countdown, currentTurn, roomData,
                   cdRun, cdSeen, now, timers, won, cdLog, stopped, failed>>
    /\ UNCHANGED roomExt
disableBuzz == disableBuzzWrites /\ UNCHANGED called

\* services/firebase resetBuzz: clears the winner record
resetBuzz == winnerInfo' = NoWinner /\ answer' = NoAnswer

\* services/firebase rejectPlayerAnswer: clears the winner record
rejectPlayerAnswer == winnerInfo' = NoWinner /\ answer' = NoAnswer

\* handleResetBuzz: updatedAttempts = {...roomData.songAttempts} without the
\* key roomData.currentSong
ResetAttempts_mut(rd) == [s \in Songs |-> <<>>]
ResetAttempts(rd) == [rd.songAttempts EXCEPT ![rd.currentSong] = <<>>]

handleResetBuzzWrites ==
    /\ resetBuzz
    /\ won' = {}
    /\ IF gameMode = "expert" /\ roomData[Host].currentSong # NoSong
          THEN songAttempts' = ResetAttempts(roomData[Host])
          ELSE UNCHANGED songAttempts
    /\ UNCHANGED <<gameMode, buzzEnabled, countdown, currentTurn, roomData,
                   cdRun, cdSeen, now, timers, cdLog, stopped, failed>>
    /\ UNCHANGED <<players, modeSettings, currentSong, buzzPc>>
handleResetBuzz == handleResetBuzzWrites /\ UNCHANGED called

\* rejectAnswer: rejectPlayerAnswer, then disableBuzz
RejectWrites ==
    /\ rejectPlayerAnswer
    /\ buzzEnabled' = FALSE
    /\ won' = {}
    /\ UNCHANGED <<gameMode, countdown, currentTurn, roomData, cdRun, cdSeen,
                   now, timers, cdLog, stopped, failed>>
    /\ UNCHANGED <<players, modeSettings, songAttempts, currentSong, buzzPc>>

\* rejectAnswer: guarded by the host's snapshot
rejectAnswer ==
    /\ roomData[Host].winnerInfo # NoWinner
    /\ RejectWrites
    /\ UNCHANGED called

(* ------------------------- CountdownSequencer -------------------------- *)
\* firebase update(): the given keys are merged into the stored object
ApplyUpdate(obj, w) == [k \in DOMAIN obj |-> IF k \in DOMAIN w THEN w[k] ELSE obj[k]]

\* AudioPlayer, host-only countdown listener: value 3 while active fires
\* disableBuzzForSong, the terminal record fires enableBuzzForSong
BuzzControl_mut(cd, b) ==
    IF cd.isActive /\ cd.value = CountdownFrom THEN FALSE
    ELSE IF ~cd.isActive /\ cd.value = 0 THEN FALSE
    ELSE b
BuzzControl(cd, b) ==
    IF cd.isActive /\ cd.value = CountdownFrom THEN FALSE
    ELSE IF ~cd.isActive /\ cd.value = 0 THEN TRUE
    ELSE b

\* a host write to rooms/{code}/countdown; the host's own listeners run on
\* every local change of the record (a fresh Date.now() stamp is a change)
CountdownWrite(w, b) ==
    LET cd == ApplyUpdate(countdown, w)
        changed == cd # countdown \/ ("startTime" \in DOMAIN w /\ w.startTime)
    IN /\ countdown' = cd
       /\ buzzEnabled' = IF changed THEN BuzzControl(cd, b) ELSE b

\* the records the sequences write
InitialWrite == [isActive |-> TRUE, value |-> CountdownFrom, startTime |-> TRUE]
RoomTickWrite(i) == [isActive |-> TRUE, value |-> i, startTime |-> TRUE]
AudioTickWrite(i) == [value |-> i, isActive |-> TRUE]
TerminalWrite == [isActive |-> FALSE, value |-> 0]
StopWrite_mut == [isActive |-> FALSE, value |-> 0]
StopWrite == [isActive |-> FALSE, value |-> 0, startTime |-> FALSE]
NextTick_mut(i) == i - 2
NextTick(i) == i - 1

isCountdownActive == countdown.isActive

\* testCountdown -> RoomContext.startCountdown: disableBuzzForSong is
\* dispatched, then the initial record is written
testCountdownWrites(r) ==
    /\ cdRun[r].kind = "none"
    /\ cdRun' = [cdRun EXCEPT ![r] = [kind |-> "room", pc |-> "tick", i |-> CountdownFrom]]
    /\ CountdownWrite(InitialWrite, FALSE)
    /\ stopped' = 0
    /\ failed' = FALSE
    /\ UNCHANGED <<gameMode, winnerInfo, currentTurn, roomData, cdSeen, now, timers, won>>
    /\ UNCHANGED roomExt
testCountdown(r) == testCountdownWrites(r) /\ UNCHANGED called

\* playAudio(file, 'left') -> AudioPlayer.startCountdown; playAudio returns
\* when the component already shows an active countdown
StartAudioCountdown(r) ==
    /\ cdRun[r].kind = "none"
    /\ ~isCountdownActive
    /\ cdRun' = [cdRun EXCEPT ![r] = [kind |-> "audio", pc |-> "tick", i |-> CountdownFrom]]
    /\ CountdownWrite(InitialWrite, FALSE)
    /\ stopped' = 0
    /\ failed' = FALSE
    /\ UNCHANGED <<gameMode, winnerInfo, currentTurn, roomData, cdSeen, now, timers, won>>
    /\ UNCHANGED roomExt

playAudioLeft(r) == StartAudioCountdown(r) /\ UNCHANGED called

\* one iteration of for (i = 3; i > 0; i--): write the tick, sleep 1000 ms
CountdownTick(r) ==
    /\ cdRun[r].pc = "tick"
    /\ cdRun[r].i > 0
    /\ CountdownWrite(IF cdRun[r].kind = "room" THEN RoomTickWrite(cdRun[r].i)
                                               ELSE AudioTickWrite(cdRun[r].i), buzzEnabled)
    /\ cdRun' = [cdRun EXCEPT ![r].i = NextTick(cdRun[r].i)]
    /\ UNCHANGED <<gameMode, winnerInfo, currentTurn, roomData, cdSeen, now, timers,
                   won, stopped, failed>>
    /\ UNCHANGED ext

\* after the loop: the terminal write; RoomContext then dispatches
\* enableBuzzForSong, AudioPlayer calls executePlayAudio
CountdownEnd(r) ==
    /\ cdRun[r].pc = "tick"
    /\ cdRun[r].i = 0
    /\ CountdownWrite(TerminalWrite, cdRun[r].kind = "room" \/ buzzEnabled)
    /\ cdRun' = [cdRun EXCEPT ![r] = IF cdRun[r].kind = "room" THEN IdleRun
                                      ELSE [cdRun[r] EXCEPT !.pc = "play"]]
    /\ UNCHANGED <<gameMode, winnerInfo, currentTurn, roomData, cdSeen, now, timers,
                   won, stopped, failed>>
    /\ UNCHANGED ext

\* stopCountdown: update(countdown, {isActive: false, value: 0, startTime: null})
stopCountdownWrites ==
    /\ stopped < MaxStops
    /\ CountdownWrite(StopWrite, buzzEnabled)
    /\ stopped' = stopped + 1
    /\ UNCHANGED <<gameMode, winnerInfo, currentTurn, roomData, cdRun, cdSeen, now,
                   timers, won, failed>>
    /\ UNCHANGED roomExt
stopCountdown == stopCountdownWrites /\ UNCHANGED called

\* executePlayAudio, 'play' event of the left column outside the easy and
\* turn-based modes: enableBuzzForSong
PlayEventLeft(r) ==
    /\ cdRun[r].pc = "play"
    /\ gameMode \notin {"easy", "turnBased"}
    /\ buzzEnabled' = TRUE
    /\ cdRun' = [cdRun EXCEPT ![r] = IdleRun]
    /\ UNCHANGED <<gameMode, winnerInfo, countdown, currentTurn, roomData, cdSeen, now,
                   timers, won, stopped, failed>>
    /\ UNCHANGED ext

\* history of the values the stored countdown takes
CdEvent(cd) == [isActive |-> cd.isActive, value |-> cd.value]
Logged(A) ==
    /\ A
    /\ cdLog' = IF CdEvent(countdown') # CdEvent(countdown)
                  THEN Append(cdLog, CdEvent(countdown')) ELSE cdLog
Unlogged(A) == A /\ UNCHANGED cdLog

(* ------------------------------ race spec ------------------------------ *)
InitRoomOf(pl, settings) ==
    /\ buzzEnabled = FALSE
    /\ winnerInfo = NoWinner
    /\ countdown = NoCountdown
    /\ currentTurn = NoTurn
    /\ players = pl
    /\ modeSettings = settings
    /\ songAttempts = [s \in Songs |-> <<>>]
    /\ currentSong = NoSong
    /\ buzzPc = [p \in Players |-> "idle"]
    /\ called = NoCall
    /\ answer = NoAnswer
    /\ roomData = [c \in Clients |-> RoomView]
    /\ cdRun = [r \in Runs |-> IdleRun]
    /\ cdSeen = [c \in Clients |-> 0]
    /\ now = 0
    /\ timers = {}
    /\ won = {}
    /\ cdLog = <<>>
    /\ stopped = 0
    /\ failed = FALSE

InitRoom == InitRoomOf([c \in Clients |-> NewPlayer], NoSettings)

Init ==
    /\ gameMode \in {"classic", "speed", "teams"}
    /\ InitRoom

Next ==
    \/ \E c \in Clients : Deliver(c)
    \/ \E p \in Players : HandleBuzz(p)
    \/ enableBuzz
    \/ disableBuzz
    \/ handleResetBuzz
    \/ rejectAnswer

Spec == Init /\ [][Next]_vars

\* C1: among participants calling handleBuzz concurrently in a round with no
\* winner, exactly one is recorded as winner and all others are rejected,
\* so at most one call per round writes winnerInfo.
C1_ExactlyOneWon == Cardinality(won) <= 1

\* C2: once winnerInfo is written for a participant it is never overwritten
\* by another participant; it only changes by being cleared.
C2_WinnerNeverOverwritten ==
    [][winnerInfo # NoWinner => winnerInfo' \in {winnerInfo, NoWinner}]_vars

\* C3: in classic, speed and teams modes a buzz is accepted only if the store
\* has buzzEnabled true and no winnerInfo at the moment the write is applied.
C3_AcceptedOnlyWhenStoreArmed ==
    [][(winnerInfo' # NoWinner /\ winnerInfo' # winnerInfo)
         => (buzzEnabled /\ winnerInfo = NoWinner)]_vars

(* --------------------------- countdown spec ---------------------------- *)
InitCountdown ==
    /\ gameMode = "classic"
    /\ InitRoom

NextCountdown ==
    \/ \E c \in Buzzers : Deliver(c)
    \/ \E p \in Buzzers : HandleBuzz(p)
    \/ \E r \in Runs : Unlogged(testCountdown(r))
    \/ \E r \in Runs : Unlogged(playAudioLeft(r))
    \/ \E r \in Runs : Unlogged(CountdownTick(r))
    \/ \E r \in Runs : Unlogged(CountdownEnd(r))
    \/ \E r \in Runs : Unlogged(PlayEventLeft(r))
    \/ Unlogged(stopCountdown)

SpecCountdown == InitCountdown /\ [][NextCountdown]_vars

\* C4: no winnerInfo is written in a state where countdown.isActive is true.
C4_NoWinnerDuringCountdown ==
    [][(winnerInfo' # NoWinner /\ winnerInfo' # winnerInfo) => ~countdown.isActive]_vars

\* C6: while a countdown is active its value decreases by exactly 1 per tick
\* down to 0, where isActive becomes false (a stop may end it at any value).
C6_CountdownDecreasesByOne ==
    [][(countdown.isActive /\ CdEvent(countdown') # CdEvent(countdown))
         => \/ (~countdown'.isActive /\ countdown'.value = 0)
            \/ (countdown'.isActive /\ countdown'.value = countdown.value - 1
                  /\ countdown'.value > 0)]_vars

\* C7: after stopCountdown the countdown is inactive at 0 and stays inactive
\* until a new countdown is explicitly started.
C7_StaysStoppedAfterStop ==
    stopped > 0 => (~countdown.isActive /\ countdown.value = 0)

\* C8: stopCountdown always leaves the same terminal record, whether or not a
\* countdown was active, and applying it again changes nothing.
StoppedCountdown == [isActive |-> FALSE, value |-> 0, startTime |-> FALSE]
C8_StopIdempotent ==
    [][(stopped' = stopped + 1)
         => (countdown' = StoppedCountdown
               /\ ApplyUpdate(countdown', StopWrite) = countdown')]_vars
C8_Witness == stopped = 2 /\ countdown = StoppedCountdown

(* ------------------- one countdown sequence, store errors -------------- *)
AllIdle == \A r \in Runs : cdRun[r].pc \in {"idle", "play"}

\* countdown listener of a client (onValue on rooms/{code}/countdown): the
\* next value event is handed to setCountdownState
CountdownListener(c) ==
    /\ cdSeen[c] < Len(cdLog)
    /\ cdSeen' = [cdSeen EXCEPT ![c] = cdSeen[c] + 1]
    /\ UNCHANGED <<gameMode, buzzEnabled, winnerInfo, countdown, currentTurn, roomData,
                   cdRun, now, timers, won, cdLog, stopped, failed>>
    /\ UNCHANGED ext

\* the values client c has been shown so far
Observed(c) == SubSeq(cdLog, 1, cdSeen[c])

\* the initial update() of a sequence rejects: control enters the catch block
StartWriteFails(r, kind) ==
    /\ cdRun[r].kind = "none"
    /\ kind = "audio" => ~isCountdownActive
    /\ buzzEnabled' = FALSE
    /\ cdRun' = [cdRun EXCEPT ![r] = [kind |-> kind, pc |-> "catch", i |-> CountdownFrom]]
    /\ stopped' = 0
    /\ failed' = TRUE
    /\ UNCHANGED <<gameMode, winnerInfo, countdown, currentTurn, roomData, cdSeen, now,
                   timers, won, cdLog>>
    /\ UNCHANGED ext

\* a tick update() or the terminal update() rejects
WriteFails(r) ==
    /\ cdRun[r].pc = "tick"
    /\ cdRun' = [cdRun EXCEPT ![r].pc = "catch"]
    /\ failed' = TRUE
    /\ UNCHANGED <<gameMode, buzzEnabled, winnerInfo, countdown, currentTurn, roomData,
                   cdSeen, now, timers, won, cdLog, stopped>>
    /\ UNCHANGED ext

\* catch block: await update(countdown, {isActive: false, value: 0})
CatchCleanup(r) ==
    /\ cdRun[r].pc = "catch"
    /\ CountdownWrite(TerminalWrite, buzzEnabled)
    /\ cdRun' = [cdRun EXCEPT ![r] = IdleRun]
    /\ UNCHANGED <<gameMode, winnerInfo, currentTurn, roomData, cdSeen, now, timers,
                   won, stopped, failed>>
    /\ UNCHANGED ext

\* the update() inside the catch block rejects as well: the promise of the
\* sequence rejects and nothing more is written
CatchCleanupFails(r) ==
    /\ cdRun[r].pc = "catch"
    /\ cdRun' = [cdRun EXCEPT ![r] = IdleRun]
    /\ UNCHANGED <<gameMode, buzzEnabled, winnerInfo, countdown, currentTurn, roomData,
                   cdSeen, now, timers, won, cdLog, stopped, failed>>
    /\ UNCHANGED ext

NotStarted == AllIdle /\ cdLog = <<>> /\ ~failed

InitSequence ==
    /\ gameMode = "classic"
    /\ InitRoom

NextSequence ==
    \/ \E r \in Runs : NotStarted /\ Logged(testCountdown(r))
    \/ \E r \in Runs : NotStarted /\ Logged(playAudioLeft(r))
    \/ \E r \in Runs, k \in {"room", "audio"} : NotStarted /\ StartWriteFails(r, k)
    \/ \E r \in Runs : Logged(CountdownTick(r))
    \/ \E r \in Runs : Logged(CountdownEnd(r))
    \/ \E r \in Runs : Logged(PlayEventLeft(r))
    \/ \E r \in Runs : WriteFails(r)
    \/ \E r \in Runs : Logged(CatchCleanup(r))
    \/ \E r \in Runs : CatchCleanupFails(r)
    \/ \E c \in Clients : CountdownListener(c)

SpecSequence == InitSequence /\ [][NextSequence]_vars

IsPrefix(a, b) == Len(a) <= Len(b) /\ a = SubSeq(b, 1, Len(a))
ExpectedCountdown ==
    << [isActive |-> TRUE, value |-> 3], [isActive |-> TRUE, value |-> 2],
       [isActive |-> TRUE, value |-> 1], [isActive |-> FALSE, value |-> 0] >>

\* C5: a 3-step countdown whose writes succeed makes the stored countdown take
\* the values 3, 2, 1, 0 with isActive true, true, true, false, in that order,
\* and every subscribed client is shown these values in that order.
C5_CountdownSequence ==
    ~failed =>
        /\ IsPrefix(cdLog, ExpectedCountdown)
        /\ \A c \in Clients : IsPrefix(Observed(c), ExpectedCountdown)
        /\ (AllIdle /\ cdLog # <<>>) => cdLog = ExpectedCountdown
C5_Witness ==
    /\ ~failed
    /\ AllIdle
    /\ \A c \in Clients : Observed(c) = ExpectedCountdown

\* C9: when a store write of the sequence has failed and the sequence has
\* ended, the countdown is {isActive: false, value: 0}.
C9_FailedSequenceEndsTerminal ==
    (failed /\ AllIdle) => (~countdown.isActive /\ countdown.value = 0)

(* ----------------------------- TurnScheduler --------------------------- *)
\* Object.keys(roomData.players): the store orders the keys, not the joins.
\* Non-host ids are numbered in key order; the host's key sorts at hostPos.
KeyOrder(hostPos) ==
    [i \in 1..(NumPlayers + 1) |->
        IF i < hostPos THEN i ELSE IF i = hostPos THEN Host ELSE i - 1]
IsPresent(rd, c) == rd.players[c].present
PlayerIds(rd, hostPos) == SelectSeq(KeyOrder(hostPos), LAMBDA c : IsPresent(rd, c))

\* setGameMode(turnBased): turnOrder is every key of roomData.players, the
\* first key gets turn 1 with advantagePhase true; one update writes the
\* mode and the turn, no timer is scheduled
setGameModeTurnBasedWrites ==
    /\ gameMode # "turnBased"
    /\ \E hostPos \in 1..(NumPlayers + 1) :
          LET playerIds == PlayerIds(roomData[Host], hostPos)
          IN  currentTurn' = [defined |-> TRUE, playerId |-> playerIds[1],
                              turnNumber |-> 1, startTime |-> now,
                              advantagePhase |-> TRUE, turnOrder |-> playerIds,
                              nextPlayerIndex |-> 1]
    /\ gameMode' = "turnBased"
    /\ UNCHANGED <<buzzEnabled, winnerInfo, countdown, roomData, cdRun, cdSeen, now,
                   timers, won, cdLog, stopped, failed>>
    /\ UNCHANGED roomExt
setGameModeTurnBased == setGameModeTurnBasedWrites /\ UNCHANGED called

\* executePlayAudio: playersList.filter(p => !p.isHost) over the host's snapshot
NonHostPlayers(rd) ==
    SelectSeq([i \in 1..NumPlayers |-> i], LAMBDA c : IsPresent(rd, c))

\* executePlayAudio: nonHostPlayers[(turnNumber || 0) % nonHostPlayers.length]
TurnIndex(rd) ==
    (IF rd.currentTurn.defined THEN rd.currentTurn.turnNumber ELSE 0)
        % Len(NonHostPlayers(rd))
TurnWrite(rd, t) ==
    [defined |-> TRUE, playerId |-> NonHostPlayers(rd)[TurnIndex(rd) + 1],
     turnNumber |-> TurnIndex(rd) + 1, startTime |-> t, advantagePhase |-> TRUE]

\* executePlayAudio, 'play' event of the left column in turn-based mode:
\* disableBuzzForSong; with at least one non-host player the turn update,
\* then enableBuzzForSong and the setTimeout that ends the advantage phase;
\* with none the branch ends there. The file played is not followed here.
PlayEventLeftTurn ==
    /\ gameMode = "turnBased"
    /\ now + AdvantageTimeoutSeconds <= MaxTime
    /\ IF Len(NonHostPlayers(roomData[Host])) > 0
          THEN /\ currentTurn' = ApplyUpdate(currentTurn, TurnWrite(roomData[Host], now))
               /\ buzzEnabled' = TRUE
               /\ timers' = timers \cup {now + AdvantageTimeoutSeconds}
          ELSE /\ buzzEnabled' = FALSE
               /\ UNCHANGED <<currentTurn, timers>>
    /\ UNCHANGED <<gameMode, winnerInfo, countdown, roomData, cdRun, cdSeen, now, won,
                   cdLog, stopped, failed>>
    /\ UNCHANGED ext

\* startNewTurn: disableBuzzForSong, update(currentTurn, {playerId: '',
\* turnNumber: snapshot + 1, startTime, advantagePhase: false}), the same
\* record replaces the host's local currentTurn, then enableBuzzForSong
NewTurnData(rd, t) ==
    [defined |-> TRUE, playerId |-> NoWinner,
     turnNumber |-> (IF rd.currentTurn.defined THEN rd.currentTurn.turnNumber ELSE 0) + 1,
     startTime |-> t, advantagePhase |-> FALSE]
startNewTurnWrites ==
    /\ roomData[Host].currentTurn.turnNumber < MaxTurnNumber
    /\ currentTurn' = ApplyUpdate(currentTurn, NewTurnData(roomData[Host], now))
    /\ roomData' = [roomData EXCEPT ![Host].currentTurn =
                        ApplyUpdate(NoTurn, NewTurnData(roomData[Host], now))]
    /\ buzzEnabled' = TRUE
    /\ UNCHANGED <<gameMode, winnerInfo, countdown, cdRun, cdSeen, now, timers, won,
                   cdLog, stopped, failed>>
    /\ UNCHANGED roomExt
startNewTurn == startNewTurnWrites /\ UNCHANGED called

\* nextTurn: disableBuzzForSong, advantagePhase set to true in the host's
\* local currentTurn only, then enableBuzzForSong; nothing is written to
\* rooms/{code}/currentTurn
nextTurnWrites ==
    /\ roomData' = [roomData EXCEPT ![Host].currentTurn =
                        ApplyUpdate(@, [defined |-> TRUE, advantagePhase |-> TRUE])]
    /\ buzzEnabled' = TRUE
    /\ UNCHANGED <<gameMode, winnerInfo, countdown, currentTurn, cdRun, cdSeen, now,
                   timers, won, cdLog, stopped, failed>>
    /\ UNCHANGED roomExt
nextTurn == nextTurnWrites /\ UNCHANGED called

\* the setTimeout callback: update(currentTurn, {advantagePhase: false})
AdvantageTimeout(t) ==
    /\ t \in timers
    /\ now >= t
    /\ currentTurn' = ApplyUpdate(currentTurn, [advantagePhase |-> FALSE])
    /\ timers' = timers \ {t}
    /\ UNCHANGED <<gameMode, buzzEnabled, winnerInfo, countdown, roomData, cdRun, cdSeen,
                   now, won, cdLog, stopped, failed>>
    /\ UNCHANGED ext

\* time passes on the host; a due callback runs before the clock moves on
Tick ==
    /\ now < MaxTime
    /\ \A t \in timers : t > now
    /\ now' = now + TimeStep
    /\ UNCHANGED <<gameMode, buzzEnabled, winnerInfo, countdown, currentTurn, roomData,
                   cdRun, cdSeen, timers, won, cdLog, stopped, failed>>
    /\ UNCHANGED ext

InitTurn ==
    /\ gameMode = "classic"
    /\ InitRoom

NextTurn ==
    \/ setGameModeTurnBased
    \/ \E c \in Buzzers \cup {Host} : Deliver(c)
    \/ \E p \in Buzzers : HandleBuzz(p)
    \/ handleResetBuzz
    \/ PlayEventLeftTurn
    \/ \E t \in timers : AdvantageTimeout(t)
    \/ Tick

SpecTurn == InitTurn /\ [][NextTurn]_vars

TurnElapsed == now - currentTurn.startTime
PlaybackTurn ==
    /\ gameMode = "turnBased"
    /\ currentTurn.defined
    /\ (currentTurn.startTime + AdvantageTimeoutSeconds) \in timers
         \/ TurnElapsed >= AdvantageTimeoutSeconds

\* C10: in a turn started by playback, a player who is not the current turn
\* player is denied during the first 10 seconds of the turn and passes the
\* turn check once 10 seconds have elapsed.
C10_AdvantageWindowTenSeconds ==
    PlaybackTurn =>
        \A p \in Players \ {currentTurn.playerId} :
            /\ TurnElapsed < turnAdvantageSeconds => ~MayBuzz(RoomView, gameMode, p)
            /\ TurnElapsed >= turnAdvantageSeconds => ~TurnGateDenies(RoomView, gameMode, p)

\* C11: in every turn advantagePhase is true from startTime for the whole
\* configured advantage duration (and false afterwards until the next turn
\* starts); in particular a turn started by playback while an earlier turn's
\* expiry callback is still pending keeps its full advantage window.
C11_FullAdvantageWindowKept ==
    (PlaybackTurn /\ TurnElapsed < turnAdvantageSeconds) => currentTurn.advantagePhase

(* ------------------------- rotation over the room ----------------------- *)
\* the room as the host opens it: the host and any set of joined players
InitRotation ==
    /\ gameMode = "classic"
    /\ \E joined \in SUBSET Players :
          InitRoomOf([c \in Clients |-> IF c \in joined \cup {Host} THEN NewPlayer ELSE Absent],
                     NoSettings)

NextRotation ==
    \/ setGameModeTurnBased
    \/ \E c \in Buzzers \cup {Host} : players[c].present /\ Deliver(c)
    \/ \E p \in Buzzers : players[p].present /\ HandleBuzz(p)
    \/ handleResetBuzz
    \/ PlayEventLeftTurn
    \/ startNewTurn
    \/ nextTurn

SpecRotation == InitRotation /\ [][NextRotation]_vars

Range(seq) == {seq[i] : i \in DOMAIN seq}
PresentPlayers == {p \in Players : players[p].present}

\* C12: when turn-based mode is activated the turn order is built from
\* exactly the current non-host players (the host is never in it) and the
\* first turn belongs to the first player of that order. The join order is
\* not compared: the order is read as a set without repetitions.
C12_OrderFromNonHostPlayers ==
    [][(gameMode # "turnBased" /\ gameMode' = "turnBased") =>
          /\ Range(currentTurn'.turnOrder) = PresentPlayers
          /\ Len(currentTurn'.turnOrder) = Cardinality(PresentPlayers)
          /\ PresentPlayers # {} => currentTurn'.playerId = currentTurn'.turnOrder[1]]_vars

\* the player after p in the rotation over the non-host players
NextInRotation(p) == IF p \in Players THEN (p % NumPlayers) + 1 ELSE NoWinner

\* C13: with players A, B, C in the room, activating turn-based mode gives
\* order = [A, B, C] and current player A, and every turn advance (by
\* playback or by startNewTurn) hands the turn to the next player of the
\* order, so three advances give B, C and A again.
C13_RotationCycles ==
    [][PresentPlayers = Players =>
          /\ (gameMode # "turnBased" /\ gameMode' = "turnBased") =>
                (currentTurn'.turnOrder = [i \in 1..NumPlayers |-> i]
                    /\ currentTurn'.playerId = 1)
          /\ (gameMode = "turnBased" /\ (PlayEventLeftTurn \/ startNewTurn)) =>
                currentTurn'.playerId = NextInRotation(currentTurn.playerId)]_vars

\* C14: whenever turn-based mode is active and currentTurn is defined,
\* currentTurn.playerId = turnOrder[(turnNumber - 1) mod len(turnOrder)]
\* (the order is indexed from 0 in the claim, from 1 here).
C14_CurrentPlayerMatchesOrder ==
    (gameMode = "turnBased" /\ currentTurn.defined) =>
        /\ Len(currentTurn.turnOrder) > 0
        /\ currentTurn.playerId =
              currentTurn.turnOrder[((currentTurn.turnNumber - 1) % Len(currentTurn.turnOrder)) + 1]

\* C16: with no players to rotate over, the rotation is not initialized
\* (and an error is signalled instead).
C16_NoRotationWithoutPlayers ==
    (gameMode = "turnBased" /\ PresentPlayers = {}) => ~currentTurn.defined

(* ------------------------- the gate on any room ------------------------- *)
\* handleBuzz decides on the client's currentGameMode and on its roomData.
\* currentGameMode is set from roomData.gameMode when that is present and is
\* never cleared, so a client that leaves a turn-based room and enters a
\* room without gameMode keeps it: every mode meets every room state.
GameModeTypes == {"classic", "easy", "expert", "speed", "turnBased", "teams"}
TurnStates ==
    {NoTurn} \cup
    {[NoTurn EXCEPT !.defined = TRUE, !.playerId = p, !.turnNumber = 1,
                    !.advantagePhase = a] : p \in Players, a \in BOOLEAN}

InitGate ==
    /\ gameMode \in GameModeTypes
    /\ buzzEnabled \in BOOLEAN
    /\ winnerInfo \in {NoWinner} \cup Players
    /\ currentTurn \in TurnStates
    /\ countdown = NoCountdown
    /\ players = [c \in Clients |-> NewPlayer]
    /\ modeSettings = NoSettings
    /\ songAttempts = [s \in Songs |-> <<>>]
    /\ currentSong = NoSong
    /\ buzzPc = [p \in Players |-> "idle"]
    /\ called = NoCall
    /\ answer = NoAnswer
    /\ roomData = [c \in Clients |-> RoomView]
    /\ cdRun = [r \in Runs |-> IdleRun]
    /\ cdSeen = [c \in Clients |-> 0]
    /\ now = 0
    /\ timers = {}
    /\ won = {}
    /\ cdLog = <<>>
    /\ stopped = 0
    /\ failed = FALSE

NextGate ==
    \/ \E p \in Players : HandleBuzz(p)
    \/ \E c \in Buzzers : Deliver(c)

SpecGate == InitGate /\ [][NextGate]_vars

\* C15: in turn-based mode, while the caller's currentTurn is undefined, no
\* participant's handleBuzz is accepted.
C15_UndefinedTurnDeniesAll ==
    [][gameMode = "turnBased" =>
          \A p \in Players :
              (~roomData[p].currentTurn.defined /\ winnerInfo # p) => winnerInfo' # p]_vars

(* ------------------------------ expert mode ----------------------------- *)
\* handleBuzz: songAttempts[roomData.currentSong] || []
AttemptedPlayers_mut(rd) == rd.songAttempts[(rd.currentSong % NumSongs) + 1]
AttemptedPlayers(rd) == rd.songAttempts[rd.currentSong]

\* handleBuzz: attemptedPlayers.includes(buzzPlayerId), checked in expert
\* mode when the snapshot has a currentSong
ExpertGateDenies_mut(rd, mode, p) == FALSE
ExpertGateDenies(rd, mode, p) ==
    /\ mode = "expert"
    /\ rd.currentSong # NoSong
    /\ p \in Range(AttemptedPlayers(rd))

\* handleBuzz: {...songAttempts, [currentSong]: [...attemptedPlayers, buzzPlayerId]}
UpdatedAttempts_mut(rd, p) == rd.songAttempts
UpdatedAttempts(rd, p) ==
    [rd.songAttempts EXCEPT ![rd.currentSong] = Append(AttemptedPlayers(rd), p)]

\* handleBuzz in expert mode up to its first await: the checks on the
\* snapshot in the order of the code (buzzEnabled, winnerInfo, attempts),
\* then update(room, {songAttempts}); without a currentSong the attempts
\* block is skipped and the winner is written at once
ExpertBuzzOn(rd, p) ==
    /\ gameMode = "expert"
    /\ buzzPc[p] = "idle"
    /\ called.n < MaxCalls
    /\ called' = [op |-> "handleBuzz", by |-> p, n |-> called.n + 1]
    /\ IF ~BaseGate(rd) \/ ExpertGateDenies(rd, gameMode, p)
          THEN UNCHANGED <<songAttempts, buzzPc, winnerInfo, answer, buzzEnabled>>
          ELSE IF rd.currentSong # NoSong
                  THEN /\ songAttempts' = UpdatedAttempts(rd, p)
                       /\ buzzPc' = [buzzPc EXCEPT ![p] = "winner"]
                       /\ UNCHANGED <<winnerInfo, answer, buzzEnabled>>
                  ELSE /\ winnerInfo' = p
                       /\ answer' = NoAnswer
                       /\ buzzEnabled' = FALSE
                       /\ UNCHANGED <<songAttempts, buzzPc>>
    /\ UNCHANGED <<gameMode, countdown, currentTurn, roomData, cdRun, cdSeen, now,
                   timers, won, cdLog, stopped, failed, players, modeSettings, currentSong>>

\* the room data handleBuzz closes over: the first expert player's listener
\* may lag behind the room, the other's has run just before the call
Snapshot(p) == IF p = 1 THEN roomData[p] ELSE RoomView
ExpertBuzz(p) == ExpertBuzzOn(Snapshot(p), p)

\* handleBuzz after the await: update(room, {winnerInfo, buzzEnabled: false})
ExpertBuzzWinner(p) ==
    /\ buzzPc[p] = "winner"
    /\ winnerInfo' = p
    /\ answer' = NoAnswer
    /\ buzzEnabled' = FALSE
    /\ buzzPc' = [buzzPc EXCEPT ![p] = "idle"]
    /\ UNCHANGED <<gameMode, countdown, currentTurn, roomData, cdRun, cdSeen, now,
                   timers, won, cdLog, stopped, failed, players, modeSettings, songAttempts,
                   currentSong, called>>

\* executePlayAudio, 'play' event of the left column in expert mode:
\* update(room, {currentSong: file.name}), then enableBuzzForSong; the host
\* goes through the list of files in order and may play a file again
PlayEventLeftSong(s) ==
    /\ gameMode = "expert"
    /\ s >= currentSong
    /\ currentSong' = s
    /\ buzzEnabled' = TRUE
    /\ UNCHANGED <<gameMode, winnerInfo, countdown, currentTurn, roomData, cdRun, cdSeen,
                   now, timers, won, cdLog, stopped, failed, players, modeSettings,
                   songAttempts, buzzPc, called, answer>>

ExpertPlayers == 1..2

InitExpert ==
    /\ gameMode = "expert"
    /\ InitRoom

\* the host's own listener has caught up before anything else happens
HostCaughtUp(A) == roomData[Host] = RoomView /\ A

NextExpert ==
    \/ Deliver(Host)
    \/ HostCaughtUp(Deliver(1))
    \/ \E s \in Songs : HostCaughtUp(PlayEventLeftSong(s))
    \/ \E p \in ExpertPlayers : HostCaughtUp(ExpertBuzz(p))
    \/ \E p \in ExpertPlayers : HostCaughtUp(ExpertBuzzWinner(p))
    \/ HostCaughtUp(enableBuzz)
    \/ HostCaughtUp(rejectAnswer)
    \/ HostCaughtUp(handleResetBuzz)

SpecExpert == InitExpert /\ [][NextExpert]_vars

\* the step of a handleBuzz call, its caller and the room data it read
IsCall == called'.n # called.n
Caller == called'.by
Read == Snapshot(Caller)

\* C17: in expert mode a participant who already appears in
\* songAttempts[currentSong] of the room data is denied (the call writes
\* nothing), and one who does not appear there, as after a change of the
\* current item, is accepted when the base gate passes.
C17_AttemptedDeniedPerItem ==
    [][(IsCall /\ Read.currentSong # NoSong) =>
          /\ Caller \in Range(Read.songAttempts[Read.currentSong]) =>
                UNCHANGED <<songAttempts, winnerInfo, buzzEnabled, buzzPc>>
          /\ (Caller \notin Range(Read.songAttempts[Read.currentSong]) /\ BaseGate(Read)) =>
                buzzPc'[Caller] = "winner"]_vars

\* a participant recorded for one item has been accepted for another one
C17_Witness ==
    \E p \in ExpertPlayers : \E s \in Songs :
        /\ called.by = p
        /\ buzzPc[p] = "winner"
        /\ currentSong # s
        /\ p \in Range(songAttempts[s])
        /\ p \in Range(songAttempts[currentSong])

C19_AttemptsWithoutRepetition ==
    \A s \in Songs : \A i, j \in DOMAIN songAttempts[s] :
        i # j => songAttempts[s][i] # songAttempts[s][j]

\* both players are recorded for one item and the latest call found its
\* caller already recorded
C19_Witness ==
    /\ currentSong # NoSong
    /\ Len(songAttempts[currentSong]) = 2
    /\ called.n = MaxCalls
    /\ called.by \in Range(Snapshot(called.by).songAttempts[currentSong])
    /\ buzzPc[called.by] = "idle"

BasePoints(settings) ==
    IF settings.pointsCorrect \in {Unset, 0} THEN 10 ELSE settings.pointsCorrect
PenaltyPoints(settings) ==
    IF settings.pointsWrong \in {Unset, 0} THEN 5 ELSE settings.pointsWrong
Max(a, b) == IF a >= b THEN a ELSE b

\* the fields awardCorrectAnswer writes to players/{playerId}
CorrectUpdate_mut(pl, settings) ==
    [points |-> pl.points + BasePoints(settings),
     currentStreak |-> pl.currentStreak + 1,
     bestStreak |-> pl.bestStreak,
     correctAnswers |-> pl.correctAnswers + 1]
CorrectUpdate(pl, settings) ==
    [points |-> pl.points + BasePoints(settings),
     currentStreak |-> pl.currentStreak + 1,
     bestStreak |-> Max(pl.currentStreak + 1, pl.bestStreak),
     correctAnswers |-> pl.correctAnswers + 1]

\* the fields awardWrongAnswer writes to players/{playerId}
WrongUpdate_mut(pl, settings) ==
    [points |-> pl.points - PenaltyPoints(settings),
     currentStreak |-> 0,
     wrongAnswers |-> pl.wrongAnswers + 1]
WrongUpdate(pl, settings) ==
    [points |-> Max(0, pl.points - PenaltyPoints(settings)),
     currentStreak |-> 0,
     wrongAnswers |-> pl.wrongAnswers + 1]

\* the winner the host's snapshot shows and that player's record in it
Adjudicated == roomData[Host].winnerInfo
AdjudicatedPlayer == roomData[Host].players[Adjudicated]

\* update(playerRef, fields): the fields are set under players/{id}, an
\* entry the store holds afterwards whether or not it held one before
UpdatePlayer(pl, fields) == [ApplyUpdate(pl, fields) EXCEPT !.present = TRUE]

\* the writes of an adjudication: update(playerRef, fields), then
\* rejectPlayerAnswer and disableBuzz
AwardWrites(fields) ==
    /\ players' = [players EXCEPT ![Adjudicated] = UpdatePlayer(@, fields)]
    /\ rejectPlayerAnswer
    /\ buzzEnabled' = FALSE
    /\ won' = {}
    /\ UNCHANGED <<gameMode, countdown, currentTurn, roomData, cdRun, cdSeen, now,
                   timers, cdLog, stopped, failed, modeSettings, songAttempts,
                   currentSong, buzzPc>>

\* awardCorrectAnswer / awardWrongAnswer / awardSuperAnswer: return without a
\* winner in the host's snapshot or without the winner's player record
HasWinner == Adjudicated # NoWinner
HasWinnerRecord == HasWinner /\ AdjudicatedPlayer.present

Award(fields) ==
    /\ HasWinnerRecord
    /\ AdjudicatedPlayer.correctAnswers + AdjudicatedPlayer.wrongAnswers < MaxAnswers
    /\ AwardWrites(fields)
    /\ UNCHANGED called

awardCorrectAnswer == Award(CorrectUpdate(AdjudicatedPlayer, modeSettings))
awardWrongAnswer == Award(WrongUpdate(AdjudicatedPlayer, modeSettings))

\* the settings of the predefined modes, no setting, and a setting of 0
PointsCorrectSettings == {Unset, 0, 10, 15}
PointsWrongSettings == {Unset, 0, 4, 5}

\* a room in the middle of a game: any mode settings, the first player with
\* any score up to MaxStartPoints and any streak not above the best one
InitScore ==
    /\ gameMode = "classic"
    /\ \E pts \in 0..MaxStartPoints : \E cur \in 0..1 : \E best \in cur..1 :
       \E pc \in PointsCorrectSettings : \E pw \in PointsWrongSettings :
          InitRoomOf([c \in Clients |->
                        IF c = 1 THEN [NewPlayer EXCEPT !.points = pts,
                                                        !.currentStreak = cur,
                                                        !.bestStreak = best]
                                 ELSE NewPlayer],
                     [pointsCorrect |-> pc, pointsWrong |-> pw])

NextScore ==
    \/ \E c \in Buzzers \cup {Host} : Deliver(c)
    \/ \E p \in Buzzers : HandleBuzz(p)
    \/ enableBuzz
    \/ awardCorrectAnswer
    \/ awardWrongAnswer

SpecScore == InitScore /\ [][NextScore]_vars

\* the value the claim gives to a setting: the setting, or the default when
\* there is none
Configured(setting, default) == IF setting = Unset THEN default ELSE setting

\* C20: an adjudication changes the adjudicated player's record as the
\* reference rules say, from the record the host read: Correct adds
\* pointsCorrect (default 10), increments currentStreak and correctAnswers
\* and sets bestStreak to the maximum; Wrong sets points to
\* max(0, points - pointsWrong) (default 5), currentStreak to 0 and
\* increments wrongAnswers.
C20_ScoringMatchesReference ==
    [][\A p \in Players :
          LET old == roomData[Host].players[p]
              new == players'[p]
          IN  /\ new.correctAnswers # players[p].correctAnswers =>
                    /\ new.points = old.points + Configured(modeSettings.pointsCorrect, 10)
                    /\ new.currentStreak = old.currentStreak + 1
                    /\ new.bestStreak = Max(old.bestStreak, old.currentStreak + 1)
                    /\ new.correctAnswers = old.correctAnswers + 1
              /\ new.wrongAnswers # players[p].wrongAnswers =>
                    /\ new.points = Max(0, old.points - Configured(modeSettings.pointsWrong, 5))
                    /\ new.currentStreak = 0
                    /\ new.wrongAnswers = old.wrongAnswers + 1]_vars

(* -------------------------- adjudication calls -------------------------- *)
\* the fields awardSuperAnswer writes to players/{playerId}
superPoints == 20
SuperUpdate_mut(pl) ==
    [points |-> pl.points + BasePoints(NoSettings),
     currentStreak |-> pl.currentStreak + 1,
     bestStreak |-> Max(pl.currentStreak + 1, pl.bestStreak),
     correctAnswers |-> pl.correctAnswers + 1]
SuperUpdate(pl) ==
    [points |-> pl.points + superPoints,
     currentStreak |-> pl.currentStreak + 1,
     bestStreak |-> Max(pl.currentStreak + 1, pl.bestStreak),
     correctAnswers |-> pl.correctAnswers + 1]

\* what the room stores
StoreVars == <<gameMode, buzzEnabled, winnerInfo, countdown, currentTurn, players,
               modeSettings, songAttempts, currentSong, answer>>

\* a handler that returns at its guard writes nothing
Returns_mut ==
    /\ buzzEnabled' = FALSE
    /\ UNCHANGED <<gameMode, winnerInfo, countdown, currentTurn, players,
                   modeSettings, songAttempts, currentSong, answer>>
    /\ UNCHANGED <<roomData, cdRun, cdSeen, now, timers, won, cdLog, stopped,
                   failed, buzzPc>>
Returns ==
    /\ UNCHANGED StoreVars
    /\ UNCHANGED <<roomData, cdRun, cdSeen, now, timers, won, cdLog, stopped,
                   failed, buzzPc>>

\* a call of operation op by client c
CallBy(op, c) ==
    /\ called.n < MaxCalls
    /\ called' = [op |-> op, by |-> c, n |-> called.n + 1]

\* services/firebase assignPoints and subtractPoints on the stored record of
\* the winner; the winner record is cleared, points do not go below 0
PointsWrites(delta) ==
    /\ players' = [players EXCEPT ![Adjudicated].points = Max(0, @ + delta)]
    /\ winnerInfo' = NoWinner
    /\ answer' = NoAnswer
    /\ buzzEnabled' = FALSE
    /\ won' = {}
    /\ UNCHANGED <<gameMode, countdown, currentTurn, roomData, cdRun, cdSeen, now,
                   timers, cdLog, stopped, failed, modeSettings, songAttempts,
                   currentSong, buzzPc>>

\* the adjudication handlers as the host invokes them, with or without a
\* winner in the host's snapshot
awardCorrectAnswerCall ==
    /\ CallBy("awardCorrectAnswer", Host)
    /\ IF HasWinnerRecord
          THEN AwardWrites(CorrectUpdate(AdjudicatedPlayer, modeSettings))
          ELSE Returns

awardWrongAnswerCall ==
    /\ CallBy("awardWrongAnswer", Host)
    /\ IF HasWinnerRecord
          THEN AwardWrites(WrongUpdate(AdjudicatedPlayer, modeSettings))
          ELSE Returns

awardSuperAnswerCall ==
    /\ CallBy("awardSuperAnswer", Host)
    /\ IF HasWinnerRecord
          THEN AwardWrites(SuperUpdate(AdjudicatedPlayer))
          ELSE Returns

\* BuzzButton: handleAwardPoints(10), handleAwardPoints(20)
AwardAmounts == {10, 20}
awardPoints(amount) ==
    /\ CallBy("awardPoints", Host)
    /\ IF HasWinner THEN PointsWrites(amount) ELSE Returns

\* BuzzButton: handleSubtractPoints(5)
SubtractAmounts == {5}
subtractPlayerPoints(amount) ==
    /\ CallBy("subtractPlayerPoints", Host)
    /\ IF HasWinner THEN PointsWrites(0 - amount) ELSE Returns

rejectAnswerCall ==
    /\ CallBy("rejectAnswer", Host)
    /\ IF HasWinner THEN RejectWrites ELSE Returns

\* no settings, or the settings of a custom mode
AdjudicationSettings == {NoSettings, [pointsCorrect |-> 15, pointsWrong |-> 4]}

\* scores below and above the penalties
StartPoints == {0, MaxStartPoints \div 2, MaxStartPoints}

\* a room in the middle of a game: the first player with no score, a score
\* below the penalty or one above it, and any streak not above the best one
InitAdjudication ==
    /\ gameMode = "classic"
    /\ \E pts \in StartPoints : \E cur \in 0..1 : \E best \in cur..1 :
       \E settings \in AdjudicationSettings :
          InitRoomOf([c \in Clients |->
                        IF c = 1 THEN [NewPlayer EXCEPT !.points = pts,
                                                        !.currentStreak = cur,
                                                        !.bestStreak = best]
                                 ELSE NewPlayer],
                     settings)

\* the buzzing player's snapshot is brought up to date before any other step
BuzzerCaughtUp(A) == roomData[1] = RoomView /\ A

NextAdjudication ==
    \/ Deliver(1)
    \/ BuzzerCaughtUp(Deliver(Host))
    \/ BuzzerCaughtUp(HandleBuzz(1))
    \/ BuzzerCaughtUp(enableBuzz)
    \/ BuzzerCaughtUp(awardCorrectAnswerCall)
    \/ BuzzerCaughtUp(awardWrongAnswerCall)
    \/ BuzzerCaughtUp(awardSuperAnswerCall)
    \/ \E amount \in AwardAmounts : BuzzerCaughtUp(awardPoints(amount))
    \/ \E amount \in SubtractAmounts : BuzzerCaughtUp(subtractPlayerPoints(amount))
    \/ BuzzerCaughtUp(rejectAnswerCall)

SpecAdjudication == InitAdjudication /\ [][NextAdjudication]_vars

\* the step is a call of an adjudication handler by the host
IsAdjudication == called'.n # called.n /\ called'.by = Host

\* C21: in every reachable state every player's points are at least 0, after
\* any sequence of Correct, Wrong, Excellent and Rejected adjudications.
C21_PointsNeverNegative == \A p \in Players : players[p].points >= 0

\* a Wrong verdict on a player with fewer points than the penalty
C21_Witness ==
    /\ called.op = "awardWrongAnswer"
    /\ roomData[Host].winnerInfo = 1
    /\ roomData[Host].players[1].points \in 1..(PenaltyPoints(modeSettings) - 1)
    /\ players[1].wrongAnswers = 1
    /\ players[1].points = 0

\* C22: an Excellent adjudication adds exactly 20 points to the record the
\* host read for the winner, whatever pointsCorrect is, and changes
\* currentStreak, bestStreak and correctAnswers as a Correct adjudication does.
C22_ExcellentAddsTwenty ==
    [][(IsAdjudication /\ called'.op = "awardSuperAnswer" /\ HasWinnerRecord) =>
          LET old == AdjudicatedPlayer
              new == players'[Adjudicated]
          IN  /\ new.points = old.points + 20
              /\ new.currentStreak = old.currentStreak + 1
              /\ new.bestStreak = Max(old.bestStreak, old.currentStreak + 1)
              /\ new.correctAnswers = old.correctAnswers + 1
              /\ new.wrongAnswers = players[Adjudicated].wrongAnswers]_vars

\* an Excellent verdict under pointsCorrect 15 on a player whose best streak
\* is above the current one
C22_Witness ==
    /\ called.op = "awardSuperAnswer"
    /\ called.n = 1
    /\ modeSettings.pointsCorrect = 15
    /\ roomData[Host].winnerInfo = 1
    /\ roomData[Host].players[1].bestStreak > roomData[Host].players[1].currentStreak
    /\ players[1].points = roomData[Host].players[1].points + 20
    /\ players[1].correctAnswers = 1

\* C25: for each winner record at most one verdict's score change is applied:
\* an adjudication invoked when the stored winner record is already cleared
\* changes no player's points, streaks or counters.
C25_NoSecondScoreChange ==
    [][(IsAdjudication /\ winnerInfo = NoWinner) => players' = players]_vars

\* C26: an adjudication handler invoked when the room the host sees has no
\* winnerInfo writes nothing to the store and changes no player's score.
C26_NoWinnerNoWrite ==
    [][(IsAdjudication /\ ~HasWinner) => UNCHANGED StoreVars]_vars

\* awardCorrectAnswer was invoked without a winner and returned
C26_Witness ==
    /\ called.n = 1
    /\ called.op = "awardCorrectAnswer"
    /\ roomData[Host].winnerInfo = NoWinner
    /\ buzzEnabled
    /\ players[1].correctAnswers = 0

(* ------------------------------ easy mode ------------------------------- *)
\* executePlayAudio, 'play' event of the left column in easy mode:
\* disableBuzzForSong, and setTimeout(enableBuzzForSong, buzzDelaySeconds * 1000)
PlayEventLeftEasy(r) ==
    /\ cdRun[r].pc = "play"
    /\ gameMode = "easy"
    /\ buzzEnabled' = FALSE
    /\ timers' = timers \cup {now + buzzDelaySeconds}
    /\ cdRun' = [cdRun EXCEPT ![r] = IdleRun]
    /\ UNCHANGED <<gameMode, winnerInfo, countdown, currentTurn, roomData, cdSeen, now,
                   won, stopped, failed>>
    /\ UNCHANGED ext

\* the setTimeout callback of the easy mode: enableBuzzForSong
DelayTimeout(t) ==
    /\ t \in timers
    /\ now >= t
    /\ buzzEnabled' = TRUE
    /\ timers' = timers \ {t}
    /\ UNCHANGED <<gameMode, winnerInfo, countdown, currentTurn, roomData, cdRun, cdSeen,
                   now, won, cdLog, stopped, failed>>
    /\ UNCHANGED ext

\* the host starts the playback of the next item
playAudioLeftCall(r) == StartAudioCountdown(r) /\ CallBy("playAudio", Host)

\* the host adjudicates the winner its snapshot shows, between two items
rejectAnswerOfWinner == AllIdle /\ HasWinner /\ rejectAnswerCall
awardCorrectAnswerOfWinner == AllIdle /\ HasWinnerRecord /\ awardCorrectAnswerCall

InitEasy ==
    /\ gameMode = "easy"
    /\ InitRoom

NextEasy ==
    \/ \E c \in Buzzers \cup {Host} : Deliver(c)
    \/ \E p \in Buzzers : HandleBuzz(p)
    \/ \E r \in Runs : Unlogged(playAudioLeftCall(r))
    \/ \E r \in Runs : Unlogged(CountdownTick(r))
    \/ \E r \in Runs : Unlogged(CountdownEnd(r))
    \/ \E r \in Runs : Unlogged(PlayEventLeftEasy(r))
    \/ \E t \in timers : DelayTimeout(t)
    \/ Tick
    \/ rejectAnswerOfWinner
    \/ awardCorrectAnswerOfWinner

SpecEasy == InitEasy /\ [][NextEasy]_vars

\* the handlers that give a verdict
VerdictOps == {"awardCorrectAnswer", "awardWrongAnswer", "awardSuperAnswer",
               "awardPoints", "subtractPlayerPoints", "rejectAnswer"}

\* C24: after an adjudication buzzEnabled stays false until the host takes
\* a separate action (here: starts the next item), also when a delayed
\* enable of the previous item is still pending.
C24_AdjudicationKeepsBuzzClosed ==
    called.op \in VerdictOps => ~buzzEnabled

\* the delay of the latest playback has not expired; the countdown is over
\* and the playback has not started
InDelay == \E t \in timers : now < t
AfterCountdown == \E r \in Runs : cdRun[r].pc = "play"

\* C27: in easy mode buzzEnabled is false while the delay of the current
\* playback runs, and no buzz is accepted between the end of the countdown
\* and the expiry of the delay.
C27_EasyDelayKeepsBuzzClosed ==
    [][/\ InDelay' => ~buzzEnabled'
       /\ (AfterCountdown \/ InDelay) => winnerInfo' \in {winnerInfo, NoWinner}]_vars

(* --------------------------- countdown, live host ----------------------- *)
\* the host starts countdowns and takes no other action; participants buzz
NextLive ==
    \/ \E c \in Buzzers : Deliver(c)
    \/ \E p \in Buzzers : HandleBuzz(p)
    \/ \E r \in Runs : Unlogged(testCountdown(r))
    \/ \E r \in Runs : Unlogged(playAudioLeft(r))
    \/ \E r \in Runs : Unlogged(CountdownTick(r))
    \/ \E r \in Runs : Unlogged(CountdownEnd(r))
    \/ \E r \in Runs : Unlogged(PlayEventLeft(r))

\* the host process is live: a sequence that can write its next tick or its
\* terminal record does so, and the audio started after the countdown plays
LiveHost ==
    \A r \in Runs :
        /\ WF_vars(Unlogged(CountdownTick(r)))
        /\ WF_vars(Unlogged(CountdownEnd(r)))
        /\ WF_vars(Unlogged(PlayEventLeft(r)))

SpecLive == InitCountdown /\ [][NextLive]_vars /\ LiveHost

\* the step in which the sequence of RoomContext.startCountdown ends
RoomCountdownEnds ==
    \E r \in Runs : /\ cdRun[r].kind = "room"
                    /\ cdRun[r].pc = "tick"
                    /\ cdRun[r].i = 0
                    /\ cdRun'[r] = IdleRun

\* C28: in classic mode, once a host-started countdown has written its
\* terminal record, buzzEnabled becomes true without a further host action:
\* with the end of the sequence of RoomContext.startCountdown, and eventually
\* after the end of the countdown of a left-column playback.
C28_CountdownLeadsToBuzzEnabled ==
    /\ [][RoomCountdownEnds => buzzEnabled']_vars
    /\ (AfterCountdown ~> buzzEnabled)

\* a playback countdown has ended and the buzz is open with no winner
C28_Witness ==
    /\ cdRun = [r \in Runs |-> IdleRun]
    /\ countdown = [isActive |-> FALSE, value |-> 0, startTime |-> TRUE]
    /\ buzzEnabled
    /\ winnerInfo = NoWinner

(* ------------------------- host-only operations ------------------------- *)
\* isHost: the caller's own player record has isHost set
IsHost_mut(c) == TRUE
IsHost(c) == c = Host

\* an operation that starts with `if (!roomCode || !isHost) return;`
HostOnly(op, c, writes) ==
    /\ CallBy(op, c)
    /\ IF IsHost(c) THEN writes ELSE Returns

\* the host and one participant invoke the operations of the context
Callers == {Host, 1}

InitCallers ==
    /\ gameMode = "classic"
    /\ InitRoom

NextCallers ==
    \/ \E c \in Callers : Deliver(c)
    \/ HandleBuzz(1)
    \/ \E c \in Callers : HostOnly("setGameMode", c, setGameModeTurnBasedWrites)
    \/ \E c \in Callers : \E r \in Runs :
          Unlogged(HostOnly("startCountdown", c, testCountdownWrites(r)))
    \/ \E c \in Callers : \E r \in Runs :
          Unlogged(HostOnly("testCountdown", c, testCountdownWrites(r)))
    \/ \E c \in Callers : Unlogged(HostOnly("stopCountdown", c, stopCountdownWrites))
    \/ \E c \in Callers : HostOnly("startNewTurn", c, startNewTurnWrites)
    \/ \E c \in Callers : HostOnly("nextTurn", c, nextTurnWrites)
    \/ \E c \in Callers : HostOnly("enableBuzz", c, enableBuzzWrites)
    \/ \E c \in Callers : HostOnly("disableBuzz", c, disableBuzzWrites)
    \/ \E r \in Runs : Unlogged(CountdownTick(r))
    \/ \E r \in Runs : Unlogged(CountdownEnd(r))

SpecCallers == InitCallers /\ [][NextCallers]_vars

\* C29: setGameMode, startCountdown, stopCountdown, testCountdown,
\* startNewTurn, nextTurn, enableBuzz and disableBuzz invoked by a participant
\* who is not the host write nothing to the store, and gameMode, countdown
\* and currentTurn change only in steps of the host's process.
C29_OnlyHostWrites ==
    [][/\ (IsCall /\ Caller # Host) => UNCHANGED StoreVars
       /\ (gameMode' # gameMode \/ countdown' # countdown \/ currentTurn' # currentTurn)
             => ((IsCall /\ Caller = Host) \/ cdRun' # cdRun)]_vars

\* a participant invoked enableBuzz and then testCountdown; nothing was written
C29_Witness ==
    /\ called = [op |-> "testCountdown", by |-> 1, n |-> 2]
    /\ ~buzzEnabled
    /\ countdown = NoCountdown
    /\ cdRun = [r \in Runs |-> IdleRun]
    /\ gameMode = "classic"

(* --------------------------- handleBuzz calls --------------------------- *)
\* handleBuzz as a participant invokes it in any mode, up to its first
\* await: the checks on the caller's snapshot in the order of the code
\* (buzzEnabled, winnerInfo, turn, attempts), each returning before any
\* write; then the attempts write of the expert mode, or the winner write
handleBuzz(p) ==
    /\ buzzPc[p] = "idle"
    /\ CallBy("handleBuzz", p)
    /\ LET rd == roomData[p]
       IN  IF ~MayBuzz(rd, gameMode, p) \/ ExpertGateDenies(rd, gameMode, p)
              THEN Returns
              ELSE IF gameMode = "expert" /\ rd.currentSong # NoSong
                      THEN /\ songAttempts' = UpdatedAttempts(rd, p)
                           /\ buzzPc' = [buzzPc EXCEPT ![p] = "winner"]
                           /\ UNCHANGED <<winnerInfo, answer, buzzEnabled, won>>
                      ELSE /\ winnerInfo' = p
                           /\ answer' = NoAnswer
                           /\ buzzEnabled' = FALSE
                           /\ won' = won \cup {p}
                           /\ UNCHANGED <<songAttempts, buzzPc>>
    /\ UNCHANGED <<gameMode, countdown, currentTurn, roomData, cdRun, cdSeen, now,
                   timers, cdLog, stopped, failed, players, modeSettings, currentSong>>

\* the rooms a call can meet: open or closed, with or without a winner, any
\* turn, the first item playing or none, the first participant recorded for
\* it or nobody
AttemptStates == {[s \in Songs |-> <<>>],
                  [s \in Songs |-> IF s = 1 THEN <<1>> ELSE <<>>]}

InitBuzzCalls ==
    /\ gameMode \in {"classic", "turnBased", "expert"}
    /\ buzzEnabled \in BOOLEAN
    /\ winnerInfo \in {NoWinner, 2}
    /\ currentTurn \in TurnStates
    /\ songAttempts \in AttemptStates
    /\ currentSong \in {NoSong, 1}
    /\ countdown = NoCountdown
    /\ players = [c \in Clients |-> NewPlayer]
    /\ modeSettings = NoSettings
    /\ buzzPc = [p \in Players |-> "idle"]
    /\ called = NoCall
    /\ answer = NoAnswer
    /\ roomData = [c \in Clients |-> RoomView]
    /\ cdRun = [r \in Runs |-> IdleRun]
    /\ cdSeen = [c \in Clients |-> 0]
    /\ now = 0
    /\ timers = {}
    /\ won = {}
    /\ cdLog = <<>>
    /\ stopped = 0
    /\ failed = FALSE

NextBuzzCalls ==
    \/ \E p \in ExpertPlayers : handleBuzz(p)
    \/ \E p \in ExpertPlayers : ExpertBuzzWinner(p)
    \/ \E c \in ExpertPlayers : Deliver(c)

SpecBuzzCalls == InitBuzzCalls /\ [][NextBuzzCalls]_vars

\* the reasons for which handleBuzz rejects a call, on the caller's room data
BuzzDisabled(rd) == ~rd.buzzEnabled
WinnerPresent(rd) == rd.winnerInfo # NoWinner
NotCallersTurn(rd, p) ==
    /\ gameMode = "turnBased"
    /\ rd.currentTurn.defined
    /\ rd.currentTurn.advantagePhase
    /\ rd.currentTurn.playerId # p
AlreadyAttempted(rd, p) ==
    /\ gameMode = "expert"
    /\ rd.currentSong # NoSong
    /\ \E i \in 1..Len(rd.songAttempts[rd.currentSong]) :
          rd.songAttempts[rd.currentSong][i] = p
Rejected(rd, p) ==
    \/ BuzzDisabled(rd)
    \/ WinnerPresent(rd)
    \/ NotCallersTurn(rd, p)
    \/ AlreadyAttempted(rd, p)

\* C30: a handleBuzz call that is rejected (buzz disabled, winner present,
\* not the caller's turn during the advantage phase, caller already
\* attempted in expert mode) changes nothing: winnerInfo, buzzEnabled,
\* songAttempts and every player's score stay as they are.
C30_RejectedBuzzChangesNothing ==
    [][(IsCall /\ Rejected(roomData[Caller], Caller))
          => UNCHANGED <<winnerInfo, buzzEnabled, songAttempts, players>>]_vars

\* the first participant, already recorded for the playing item, called
\* handleBuzz on an open room without winner, and the room is as it was
C30_Witness ==
    /\ called = [op |-> "handleBuzz", by |-> 1, n |-> 1]
    /\ gameMode = "expert"
    /\ currentSong = 1
    /\ songAttempts[1] = <<1>>
    /\ roomData[1] = RoomView
    /\ buzzEnabled
    /\ winnerInfo = NoWinner
    /\ buzzPc[1] = "idle"
(* ----------------------- leaving during a rotation ---------------------- *)
\* services/firebase removePlayer: the entry of p leaves rooms/{code}/players
removePlayer(pl, p) == [pl EXCEPT ![p] = Absent]

\* handleLeaveRoom: removePlayer(roomCode, playerId); the client then drops
\* its room state
handleLeaveRoom(p) ==
    /\ players[p].present
    /\ players' = removePlayer(players, p)
    /\ UNCHANGED <<gameMode, buzzEnabled, winnerInfo, countdown, currentTurn, roomData,
                   cdRun, cdSeen, now, timers, won, cdLog, stopped, failed>>
    /\ UNCHANGED <<modeSettings, songAttempts, currentSong, buzzPc, called, answer>>

\* every player has joined before the rotation starts
InitLeave ==
    /\ gameMode = "classic"
    /\ InitRoomOf([c \in Clients |-> NewPlayer], NoSettings)

NextLeave ==
    \/ setGameModeTurnBased
    \/ Deliver(Host)
    \/ \E p \in Buzzers : players[p].present /\ Deliver(p)
    \/ \E p \in Buzzers : players[p].present /\ HandleBuzz(p)
    \/ handleResetBuzz
    \/ HostCaughtUp(PlayEventLeftTurn)
    \/ \E p \in Players : handleLeaveRoom(p)

SpecLeave == InitLeave /\ [][NextLeave]_vars

\* the remaining player whose slot comes first after p's in the order 1..NumPlayers
SlotsAfter(p, q) == (q - p + NumPlayers - 1) % NumPlayers
NextRemaining(p) ==
    CHOOSE q \in PresentPlayers : \A r \in PresentPlayers : SlotsAfter(p, q) <= SlotsAfter(p, r)

\* C31: when a player leaves in the middle of a rotation the order is not
\* renumbered: at every playback the turn passes to the remaining player
\* whose slot follows the current turn player's, the slots of departed
\* players being skipped, and the stored turnOrder is left as it was.
C31_DepartedSlotSkipped ==
    [][/\ (\E p \in Players : handleLeaveRoom(p)) =>
              currentTurn'.turnOrder = currentTurn.turnOrder
       /\ (gameMode = "turnBased" /\ currentTurn.playerId \in Players
              /\ PresentPlayers # {} /\ HostCaughtUp(PlayEventLeftTurn)) =>
              currentTurn'.playerId = NextRemaining(currentTurn.playerId)]_vars

(* --------------------- turn writes the store rejects -------------------- *)
\* startNewTurn, catch block: update(currentTurn, {playerId: '',
\* playerName: '', turnNumber: 0, startTime: null, advantagePhase: false})
TurnCleanup ==
    [defined |-> TRUE, playerId |-> NoWinner, turnNumber |-> 0, startTime |-> 0,
     advantagePhase |-> FALSE]

\* startNewTurn when update(currentTurn, newTurnData) rejects: the buzz was
\* disabled by the event dispatched before it, setRoomData and
\* enableBuzzForSong are skipped and the catch block writes TurnCleanup,
\* a write the store applies or rejects in its turn
startNewTurnWriteFails ==
    /\ CallBy("startNewTurn", Host)
    /\ buzzEnabled' = FALSE
    /\ \E applied \in BOOLEAN :
          currentTurn' = IF applied THEN ApplyUpdate(currentTurn, TurnCleanup)
                                    ELSE currentTurn
    /\ UNCHANGED <<gameMode, winnerInfo, countdown, roomData, cdRun, cdSeen, now, timers,
                   won, cdLog, stopped, failed>>
    /\ UNCHANGED roomExt

\* executePlayAudio, turn-based 'play' event when update(currentTurn, ...)
\* rejects: .catch(console.error), the then-branch (enableBuzzForSong and
\* the setTimeout) does not run
PlayEventLeftTurnWriteFails ==
    /\ gameMode = "turnBased"
    /\ Len(NonHostPlayers(roomData[Host])) > 0
    /\ CallBy("executePlayAudio", Host)
    /\ buzzEnabled' = FALSE
    /\ UNCHANGED <<gameMode, winnerInfo, countdown, currentTurn, roomData, cdRun, cdSeen,
                   now, timers, won, cdLog, stopped, failed>>
    /\ UNCHANGED roomExt

InitTurnWrites == InitLeave

NextTurnWrites ==
    \/ setGameModeTurnBased
    \/ Deliver(Host)
    \/ PlayEventLeftTurn
    \/ startNewTurn
    \/ nextTurn
    \/ startNewTurnWriteFails
    \/ PlayEventLeftTurnWriteFails

SpecTurnWrites == InitTurnWrites /\ [][NextTurnWrites]_vars

\* C32: when the store write of a turn advance fails (startNewTurn, or the
\* turn update at playback start; nextTurn writes nothing to the store),
\* currentTurn in the store is left exactly as it was, never partially
\* written or blanked.
C32_FailedAdvanceKeepsTurn ==
    [][(currentTurn.defined /\ (startNewTurnWriteFails \/ PlayEventLeftTurnWriteFails)) =>
          currentTurn' = currentTurn]_vars

(* ------------------------ winner and open buzz -------------------------- *)
\* C33: in every reachable state a present winnerInfo implies that
\* buzzEnabled is false, whatever enabled the buzz: a host enableBuzz, the
\* enable event at the end of a countdown, or a delayed-enable timer.
C33_WinnerImpliesBuzzClosed == winnerInfo # NoWinner => ~buzzEnabled

(* ----------------------- attempts written whole ------------------------- *)
\* C34: in expert mode no recorded attempt is lost by a handleBuzz call:
\* after the call every participant recorded for any item is still
\* recorded for it, so two participants buzzing on the same item on
\* snapshots taken before either write are both in songAttempts[currentSong].
C34_NoAttemptLost ==
    [][IsCall => \A s \in Songs : Range(songAttempts[s]) \subseteq Range(songAttempts'[s])]_vars

(* --------------------------- answer submission -------------------------- *)
\* a winnerInfo record that holds no playerId
NoPlayerId == -2

\* submitAnswer: update(room, {'winnerInfo/answer': answer, lastBuzzActivity});
\* the path is set under whatever the store holds at rooms/{code}/winnerInfo,
\* and where the store holds none the record then consists of the answer
submitAnswerWrites(p) ==
    /\ answer' = p
    /\ winnerInfo' = IF winnerInfo = NoWinner THEN NoPlayerId ELSE winnerInfo
    /\ UNCHANGED <<gameMode, buzzEnabled, countdown, currentTurn, roomData, cdRun, cdSeen,
                   now, timers, won, cdLog, stopped, failed>>
    /\ UNCHANGED <<players, modeSettings, songAttempts, currentSong, buzzPc>>

\* submitAnswer: returns unless the caller's snapshot has a winnerInfo
submitAnswer(p) ==
    /\ CallBy("submitAnswer", p)
    /\ IF roomData[p].winnerInfo # NoWinner THEN submitAnswerWrites(p) ELSE Returns

\* BuzzButton: the answer form is rendered for isCurrentPlayerWinner, which
\* compares the snapshot's winnerInfo.playerId with the client's playerId.
\* hasSubmitted only hides the form after the client's own submission and
\* is not followed: a repeated submission writes the same submitter again.
handleSubmitAnswer(p) == roomData[p].winnerInfo = p /\ submitAnswer(p)

AnswerPlayers == 1..2

InitAnswer ==
    /\ gameMode = "classic"
    /\ InitRoom

NextAnswer ==
    \/ \E c \in AnswerPlayers \cup {Host} : Deliver(c)
    \/ \E p \in AnswerPlayers : HandleBuzz(p)
    \/ \E p \in AnswerPlayers : handleSubmitAnswer(p)
    \/ enableBuzz
    \/ rejectAnswer
    \/ handleResetBuzz

SpecAnswer == InitAnswer /\ [][NextAnswer]_vars

IsSubmit == called'.n # called.n /\ called'.op = "submitAnswer"

\* C35: submitAnswer never brings a winner record into existence: when the
\* store holds no winnerInfo at the moment the answer write is applied, it
\* holds none afterwards, so that later buzzes are not blocked by it.
C35_SubmitCreatesNoWinner ==
    [][(IsSubmit /\ winnerInfo = NoWinner) => winnerInfo' = NoWinner]_vars

\* C36: the answer stored in winnerInfo was submitted by the participant
\* recorded in that same winnerInfo.
C36_AnswerByRecordedWinner ==
    (winnerInfo \in Players /\ answer # NoAnswer) => answer = winnerInfo

(* ------------------- adjudication of a departed winner ------------------ *)
InitDeparture ==
    /\ gameMode = "classic"
    /\ InitRoom

\* a participant acts while in the room
InRoom(p, A) == players[p].present /\ A

NextDeparture ==
    \/ Deliver(Host)
    \/ \E p \in Buzzers : InRoom(p, Deliver(p))
    \/ \E p \in Buzzers : InRoom(p, HandleBuzz(p))
    \/ \E p \in Buzzers : handleLeaveRoom(p)
    \/ enableBuzz
    \/ awardCorrectAnswerCall
    \/ awardWrongAnswerCall
    \/ awardSuperAnswerCall

SpecDeparture == InitDeparture /\ [][NextDeparture]_vars

\* C37: adjudication never creates or re-creates a player entry: a
\* participant without an entry in players when awardCorrectAnswer,
\* awardWrongAnswer or awardSuperAnswer applies its score write has none
\* afterwards.
C37_AdjudicationCreatesNoPlayer ==
    [][IsAdjudication => \A p \in Players : ~players[p].present => ~players'[p].present]_vars

(* ------------------------- right-column playback ------------------------ *)
\* playAudio(file, 'right'): returns for a non-host and during a countdown;
\* disableBuzzForSong, then executePlayAudio without a countdown, whose
\* 'play' listener dispatches disableBuzzForSong again for the right column
\* and neither writes currentSong nor schedules anything. The host starts
\* it once the left-column item has started.
playAudioRight ==
    /\ ~isCountdownActive
    /\ \A r \in Runs : cdRun[r].pc = "idle"
    /\ CallBy("playAudioRight", Host)
    /\ buzzEnabled' = FALSE
    /\ UNCHANGED <<gameMode, winnerInfo, countdown, currentTurn, roomData, cdRun, cdSeen,
                   now, timers, won, cdLog, stopped, failed>>
    /\ UNCHANGED roomExt

NextRight ==
    \/ \E c \in Buzzers \cup {Host} : Deliver(c)
    \/ \E p \in Buzzers : HandleBuzz(p)
    \/ \E r \in Runs : Unlogged(playAudioLeftCall(r))
    \/ \E r \in Runs : Unlogged(CountdownTick(r))
    \/ \E r \in Runs : Unlogged(CountdownEnd(r))
    \/ \E r \in Runs : Unlogged(PlayEventLeftEasy(r))
    \/ \E t \in timers : DelayTimeout(t)
    \/ Tick
    \/ playAudioRight

SpecRight == InitEasy /\ [][NextRight]_vars

\* C38: playback from the right-hand player never enables the buzz: from
\* the start of a right-column playback until the next left-column playback
\* starts, buzzEnabled is false, also while delayed-enable callbacks
\* scheduled by an earlier left-column playback are pending.
C38_RightPlaybackKeepsBuzzClosed == called.op = "playAudioRight" => ~buzzEnabled

(* ------------------------- reset in expert mode ------------------------- *)
\* handleResetBuzz as any client invokes it
handleResetBuzzCall(c) == HostOnly("handleResetBuzz", c, handleResetBuzzWrites)

\* the host's snapshot is at most one write behind the room when the host
\* resets; a participant resets too, to no effect
NextReset ==
    \/ Deliver(Host)
    \/ HostCaughtUp(Deliver(1))
    \/ \E s \in Songs : HostCaughtUp(PlayEventLeftSong(s))
    \/ \E p \in ExpertPlayers : HostCaughtUp(ExpertBuzz(p))
    \/ \E p \in ExpertPlayers : HostCaughtUp(ExpertBuzzWinner(p))
    \/ HostCaughtUp(rejectAnswer)
    \/ \E c \in Callers : handleResetBuzzCall(c)

SpecReset == InitExpert /\ [][NextReset]_vars

IsReset == called'.n # called.n /\ called'.op = "handleResetBuzz"

C40_BestStreakBoundsCurrent ==
    \A p \in Players :
        /\ players[p].bestStreak >= players[p].currentStreak
        /\ players[p].currentStreak >= 0

\* a Correct or Excellent verdict has raised the best streak to 2 and a
\* Wrong verdict has then reset the current one
C40_Witness ==
    /\ called.op = "awardWrongAnswer"
    /\ players[1].wrongAnswers = 1
    /\ players[1].correctAnswers = 1
    /\ players[1].currentStreak = 0
    /\ players[1].bestStreak = 2

====
